---- MODULE Spec2Model ----
(***************************************************************************)
(* Model of the analysis engine of the IT compliance assessment tool:      *)
(* analyzeFraud (rule matcher, cross-validation, aspect aggregation,       *)
(* score calculation) of src/lib/fraudAnalyzer.ts and the weighted         *)
(* compliance index the Dashboard derives from its result.                 *)
(*                                                                         *)
(* JavaScript values are modelled as follows.                              *)
(*   - a question's answer is one of "Ya", "Tidak", "null", "undefined";   *)
(*   - a question's evidence is "undefined", "null", "" or a text;         *)
(*   - an absent parentId is "undefined";                                  *)
(*   - the payload strings of a finding that are copied and never tested   *)
(*     (texts, names, descriptions) and its random id are left out;        *)
(*   - Math.round of a quotient is computed exactly on integers; the       *)
(*     IEEE-754 doubles of the code give the same integer for every        *)
(*     denominator below 40 (percentages) and below 600 (compliance        *)
(*     index), which covers every instance checked here;                   *)
(*   - the ids of a question list are unique, as the taxonomy's are.       *)
(***************************************************************************)
EXTENDS Integers, Sequences, FiniteSets, TLC

VARIABLES questions, rules, result, complianceScore, pc,
          responses,
          aiResult, isValidating, error, request, consistencyScore

\* the state of useAIValidation and what the Dashboard shows of it
aiVars == <<aiResult, isValidating, error, request, consistencyScore>>

vars == <<questions, rules, result, complianceScore, pc, responses, aiVars>>

-----------------------------------------------------------------------------
(* Bounds of the checked instances *)

MaxQuestions == 4
MaxRules == 2
MaxScoreRules == 11
MaxAnswered == 8

-----------------------------------------------------------------------------
(* Generic helpers *)

Max(a, b) == IF a >= b THEN a ELSE b

\* String.prototype.startsWith
StartsWith(s, p) == Len(s) >= Len(p) /\ SubSeq(s, 1, Len(p)) = p

\* Array.prototype.reverse on a copy
Reverse(s) == [i \in 1..Len(s) |-> s[Len(s) + 1 - i]]

\* RoundPercent with Math.floor for Math.round
RoundPercentFloor(num, den) == (100 * num) \div den

\* Math.round(num / den * 100) for num >= 0, den > 0: round half up
RoundPercent(num, den) == (200 * num + den) \div (2 * den)

-----------------------------------------------------------------------------
(* Values of the data model *)

AnswerValues == {"Ya", "Tidak", "null", "undefined"}
EvidenceValues == {"undefined", "null", "", "doc"}
Aspects == <<"A", "B", "C", "D">>

\* IsAnswered that tests for null alone
IsAnsweredNotNull(q) == q.answer # "null"

\* q.answer !== null && q.answer !== undefined
IsAnswered(q) == q.answer # "null" /\ q.answer # "undefined"

\* !value, for an answer or evidence value
Falsy(v) == v \in {"null", "undefined", ""}

\* new Map(questions.map(q => [q.id, q])): the last question of an id wins
QuestionMap(qs) ==
    [id \in {qs[i].id : i \in DOMAIN qs} |->
        qs[CHOOSE i \in DOMAIN qs :
              /\ qs[i].id = id
              /\ \A j \in DOMAIN qs : qs[j].id = id => j <= i]]

\* questionMap.get(id) is not undefined
Resolves(qmap, id) == id \in DOMAIN qmap

-----------------------------------------------------------------------------
(* Rule Matcher: the loop over the rule table in analyzeFraud *)

\* IsFraud without the test of the evidence text
IsFraudAnswerOnly(rule, evidenceQuestion) ==
    IF rule.evidenceCondition = "empty"
    THEN Falsy(evidenceQuestion.answer) \/ evidenceQuestion.answer = "Tidak"
    ELSE IF rule.evidenceCondition = "Tidak"
         THEN evidenceQuestion.answer = "Tidak"
         ELSE FALSE

\* IsFraud with the 'Tidak' branch as tolerant as the 'empty' branch
IsFraudTidakTolerant(rule, evidenceQuestion) ==
    IF rule.evidenceCondition = "empty" \/ rule.evidenceCondition = "Tidak"
    THEN \/ Falsy(evidenceQuestion.answer)
         \/ evidenceQuestion.answer = "Tidak"
         \/ evidenceQuestion.evidence = "undefined"
         \/ evidenceQuestion.evidence = ""
         \/ evidenceQuestion.evidence = "null"
    ELSE FALSE

\* IsFraud that reads 'harus Ya' as: the evidence question must be answered 'Ya'
IsFraudHarusYa(rule, evidenceQuestion) ==
    IF rule.evidenceCondition = "empty"
    THEN \/ Falsy(evidenceQuestion.answer)
         \/ evidenceQuestion.answer = "Tidak"
         \/ evidenceQuestion.evidence = "undefined"
         \/ evidenceQuestion.evidence = ""
         \/ evidenceQuestion.evidence = "null"
    ELSE IF rule.evidenceCondition = "Tidak"
         THEN evidenceQuestion.answer = "Tidak"
         ELSE evidenceQuestion.answer # "Ya"

\* the value assigned to isFraud for a rule whose condition is met
IsFraud(rule, evidenceQuestion) ==
    IF rule.evidenceCondition = "empty"
    THEN \/ Falsy(evidenceQuestion.answer)
         \/ evidenceQuestion.answer = "Tidak"
         \/ evidenceQuestion.evidence = "undefined"
         \/ evidenceQuestion.evidence = ""
         \/ evidenceQuestion.evidence = "null"
    ELSE IF rule.evidenceCondition = "Tidak"
         THEN evidenceQuestion.answer = "Tidak"
         ELSE FALSE

\* the finding pushed for a rule that fires
RuleFinding(rule, conditionQuestion, evidenceQuestion) ==
    [ruleId |-> rule.id,
     questionId |-> conditionQuestion.id,
     evidenceId |-> evidenceQuestion.id,
     severity |-> rule.severity]

\* RuleStep that takes a missing evidence question for missing evidence
RuleStepMissingIsEmpty(rule, qmap) ==
    IF ~Resolves(qmap, rule.conditionQuestionId)
    THEN <<>>
    ELSE LET conditionQuestion == qmap[rule.conditionQuestionId]
             evidenceQuestion ==
                 IF Resolves(qmap, rule.evidenceQuestionId)
                 THEN qmap[rule.evidenceQuestionId]
                 ELSE [id |-> rule.evidenceQuestionId, answer |-> "undefined",
                       evidence |-> "undefined"]
         IN  IF /\ conditionQuestion.answer = rule.conditionAnswer
                /\ IsFraud(rule, evidenceQuestion)
             THEN <<RuleFinding(rule, conditionQuestion, evidenceQuestion)>>
             ELSE <<>>

\* RuleStep that reports a rule whose questions are missing instead of
\* skipping it
RuleStepReportsUnresolved(rule, qmap) ==
    IF ~Resolves(qmap, rule.conditionQuestionId)
       \/ ~Resolves(qmap, rule.evidenceQuestionId)
    THEN <<[ruleId |-> rule.id,
            questionId |-> rule.conditionQuestionId,
            evidenceId |-> rule.evidenceQuestionId,
            severity |-> rule.severity]>>
    ELSE LET conditionQuestion == qmap[rule.conditionQuestionId]
             evidenceQuestion == qmap[rule.evidenceQuestionId]
         IN  IF /\ conditionQuestion.answer = rule.conditionAnswer
                /\ IsFraud(rule, evidenceQuestion)
             THEN <<RuleFinding(rule, conditionQuestion, evidenceQuestion)>>
             ELSE <<>>

\* one iteration of `for (const rule of rules)`: the findings it pushes
RuleStep(rule, qmap) ==
    IF ~Resolves(qmap, rule.conditionQuestionId)
       \/ ~Resolves(qmap, rule.evidenceQuestionId)
    THEN <<>>
    ELSE LET conditionQuestion == qmap[rule.conditionQuestionId]
             evidenceQuestion == qmap[rule.evidenceQuestionId]
         IN  IF /\ conditionQuestion.answer = rule.conditionAnswer
                /\ IsFraud(rule, evidenceQuestion)
             THEN <<RuleFinding(rule, conditionQuestion, evidenceQuestion)>>
             ELSE <<>>

\* RuleLoop that keeps one finding per (condition, evidence) question pair
RECURSIVE RuleLoopDedup(_, _, _, _)
RuleLoopDedup(rs, qmap, i, findings) ==
    IF i > Len(rs)
    THEN findings
    ELSE LET new == RuleStep(rs[i], qmap)
             Seen(f) == \E k \in DOMAIN findings :
                           /\ findings[k].questionId = f.questionId
                           /\ findings[k].evidenceId = f.evidenceId
         IN  RuleLoopDedup(rs, qmap, i + 1,
                 IF new # <<>> /\ Seen(new[1]) THEN findings ELSE findings \o new)

RECURSIVE RuleLoop(_, _, _, _)
RuleLoop(rs, qmap, i, findings) ==
    IF i > Len(rs)
    THEN findings
    ELSE RuleLoop(rs, qmap, i + 1, findings \o RuleStep(rs[i], qmap))

MatchRules(qs, rs) == RuleLoop(rs, QuestionMap(qs), 1, <<>>)

-----------------------------------------------------------------------------
(* Cross-Validator: performCrossValidation *)

CrossRule(condId, evidId, severity) ==
    [condition |-> [id |-> condId, answer |-> "Ya"],
     evidence |-> [id |-> evidId, answer |-> "Tidak"],
     severity |-> severity]

crossValidationRules ==
    << CrossRule("A.5", "A.8", "major"),
       CrossRule("B.1", "B.2", "major"),
       CrossRule("B.6.5", "B.14", "major"),
       CrossRule("B.35", "B.35.c", "major"),
       CrossRule("B.52", "B.59", "major"),
       CrossRule("C.1", "C.4", "major"),
       CrossRule("D.1", "D.7", "major"),
       CrossRule("B.46", "B.46.c", "minor"),
       CrossRule("A.2.d", "A.2.d.c", "minor"),
       CrossRule("B.23", "B.23.b", "minor") >>

\* questionMap.get(id)?.answer
OptionalAnswer(qmap, id) ==
    IF Resolves(qmap, id) THEN qmap[id].answer ELSE "undefined"

\* CrossRuleFires that takes a missing or unanswered evidence question for a 'Tidak'
CrossRuleFiresLenient(rule, qmap) ==
    /\ OptionalAnswer(qmap, rule.condition.id) = rule.condition.answer
    /\ OptionalAnswer(qmap, rule.evidence.id) # "Ya"

\* the test of the static loop
CrossRuleFires(rule, qmap) ==
    /\ OptionalAnswer(qmap, rule.condition.id) = rule.condition.answer
    /\ OptionalAnswer(qmap, rule.evidence.id) = rule.evidence.answer

CrossFinding(rule) ==
    [ruleId |-> "CROSS_" \o rule.condition.id \o "_" \o rule.evidence.id,
     questionId |-> rule.condition.id,
     evidenceId |-> rule.evidence.id,
     severity |-> rule.severity]

RECURSIVE CrossLoop(_, _, _)
CrossLoop(qmap, i, findings) ==
    IF i > Len(crossValidationRules)
    THEN findings
    ELSE LET rule == crossValidationRules[i]
         IN  CrossLoop(qmap, i + 1,
                 IF CrossRuleFires(rule, qmap)
                 THEN Append(findings, CrossFinding(rule))
                 ELSE findings)

\* PatternFires without the threshold of two sub-questions
PatternFiresNoThreshold(relatedSubs) ==
    /\ Len(relatedSubs) > 0
    /\ \A k \in DOMAIN relatedSubs : relatedSubs[k].answer = "Tidak"

\* PatternFires that looks at the answer of the first sub-question alone
PatternFiresFirstSub(relatedSubs) ==
    /\ Len(relatedSubs) >= 2
    /\ relatedSubs[1].answer = "Tidak"

\* allSubsNo && relatedSubs.length >= 2
PatternFires(relatedSubs) ==
    LET allSubsNo ==
            /\ Len(relatedSubs) > 0
            /\ \A k \in DOMAIN relatedSubs : relatedSubs[k].answer = "Tidak"
    IN  allSubsNo /\ Len(relatedSubs) >= 2

PatternFinding(mainQ, relatedSubs) ==
    [ruleId |-> "PATTERN_MAIN_YES_SUBS_NO_" \o mainQ.id,
     questionId |-> mainQ.id,
     evidenceId |-> IF Len(relatedSubs) > 0 /\ ~Falsy(relatedSubs[1].id)
                    THEN relatedSubs[1].id ELSE "",
     severity |-> "major"]

RECURSIVE PatternLoop(_, _, _, _)
PatternLoop(mainQuestions, subQuestions, i, findings) ==
    IF i > Len(mainQuestions)
    THEN findings
    ELSE LET mainQ == mainQuestions[i]
             IsRelated(sq) == sq.parentId = mainQ.id
             relatedSubs == SelectSeq(subQuestions, IsRelated)
         IN  PatternLoop(mainQuestions, subQuestions, i + 1,
                 IF mainQ.answer = "Ya" /\ PatternFires(relatedSubs)
                 THEN Append(findings, PatternFinding(mainQ, relatedSubs))
                 ELSE findings)

StaticFindings(qs) == CrossLoop(QuestionMap(qs), 1, <<>>)

PatternFindings(qs) ==
    LET IsMain(q) == ~q.isSubQuestion
        IsSub(q) == q.isSubQuestion
    IN  PatternLoop(SelectSeq(qs, IsMain), SelectSeq(qs, IsSub), 1, <<>>)

\* performCrossValidation that returns before the pattern pass
performCrossValidationStaticOnly(qs) == StaticFindings(qs)

performCrossValidation(qs) == StaticFindings(qs) \o PatternFindings(qs)

\* the ids of the questions of which a run reads a property without `?.`:
\* those of a rule that passes the `continue`, and the condition question of
\* a static pair that fires (condQ.text)
Dereferenced(qs, rs) ==
    LET qmap == QuestionMap(qs)
        Passes(rule) == ~(\/ ~Resolves(qmap, rule.conditionQuestionId)
                          \/ ~Resolves(qmap, rule.evidenceQuestionId))
        fired == {n \in DOMAIN crossValidationRules :
                     CrossRuleFires(crossValidationRules[n], qmap)}
    IN  {rs[n].conditionQuestionId : n \in {m \in DOMAIN rs : Passes(rs[m])}}
        \cup {rs[n].evidenceQuestionId : n \in {m \in DOMAIN rs : Passes(rs[m])}}
        \cup {crossValidationRules[n].condition.id : n \in fired}

\* a property of undefined is read: the run ends in a TypeError
ThrowsTypeError(qs, rs) ==
    \E id \in Dereferenced(qs, rs) : ~Resolves(QuestionMap(qs), id)

-----------------------------------------------------------------------------
(* Aggregator and Score Calculator: the rest of analyzeFraud *)

IsMajor(f) == f.severity = "major"
\* IsMinor that compares with a misspelt severity
IsMinorMisspelt(f) == f.severity = "Minor"

IsMinor(f) == f.severity = "minor"

\* AspectQuestions that does not leave out the sub-questions
AspectQuestionsWithSubs(aspect, qs) ==
    LET InAspect(q) == q.category = aspect
    IN  SelectSeq(qs, InAspect)

\* questions.filter(q => q.category === aspect && !q.isSubQuestion)
AspectQuestions(aspect, qs) ==
    LET InAspect(q) == q.category = aspect /\ ~q.isSubQuestion
    IN  SelectSeq(qs, InAspect)

\* ComplianceScore that takes a category without answers for fully compliant
ComplianceScoreDefaultFull(yesAnswers, answeredCount) ==
    IF answeredCount > 0 THEN RoundPercent(yesAnswers, answeredCount) ELSE 100

\* answered.length > 0 ? Math.round((yesAnswers / answered.length) * 100) : 0
ComplianceScore(yesAnswers, answeredCount) ==
    IF answeredCount > 0 THEN RoundPercent(yesAnswers, answeredCount) ELSE 0

\* AspectFindings that also lists a finding under the category of its
\* evidence question
AspectFindingsEitherQuestion(aspect, qmap, findings) ==
    LET OfAspect(f) == \/ /\ Resolves(qmap, f.questionId)
                          /\ qmap[f.questionId].category = aspect
                       \/ /\ Resolves(qmap, f.evidenceId)
                          /\ qmap[f.evidenceId].category = aspect
    IN  SelectSeq(findings, OfAspect)

\* findings.filter(f => questionMap.get(f.questionId)?.category === aspect)
AspectFindings(aspect, qmap, findings) ==
    LET OfAspect(f) == /\ Resolves(qmap, f.questionId)
                       /\ qmap[f.questionId].category = aspect
    IN  SelectSeq(findings, OfAspect)

\* one element of aspects.map(...)
AspectScore(aspect, qs, qmap, findings) ==
    LET aspectQuestions == AspectQuestions(aspect, qs)
        answered == SelectSeq(aspectQuestions, IsAnswered)
        IsYes(q) == q.answer = "Ya"
        IsNo(q) == q.answer = "Tidak"
        yesAnswers == Len(SelectSeq(answered, IsYes))
        noAnswers == Len(SelectSeq(answered, IsNo))
    IN  [aspect |-> aspect,
         totalQuestions |-> Len(aspectQuestions),
         answeredQuestions |-> Len(answered),
         yesAnswers |-> yesAnswers,
         noAnswers |-> noAnswers,
         complianceScore |-> ComplianceScore(yesAnswers, Len(answered)),
         findings |-> AspectFindings(aspect, qmap, findings)]

\* AspectScores with an entry only for the categories that have a question
AspectScoresPresentOnly(qs, qmap, findings) ==
    LET Present(aspect) == \E i \in DOMAIN qs : qs[i].category = aspect
        present == SelectSeq(Aspects, Present)
    IN  [a \in DOMAIN present |-> AspectScore(present[a], qs, qmap, findings)]

\* aspects.map(...)
AspectScores(qs, qmap, findings) ==
    [a \in DOMAIN Aspects |-> AspectScore(Aspects[a], qs, qmap, findings)]

\* HonestyScore without the floor at zero
HonestyScoreNoFloor(majorFindings, minorFindings) ==
    100 - ((majorFindings * 10) + (minorFindings * 3))

\* HonestyScore made non-negative by Math.abs
HonestyScoreAbs(majorFindings, minorFindings) ==
    LET penalty == (majorFindings * 10) + (minorFindings * 3)
    IN  IF 100 - penalty >= 0 THEN 100 - penalty ELSE penalty - 100

\* HonestyScore with the weights of the two severities exchanged
HonestyScoreSwappedWeights(majorFindings, minorFindings) ==
    LET penalty == (majorFindings * 3) + (minorFindings * 10)
    IN  Max(0, 100 - penalty)

\* penalty and honestyScore
HonestyScore(majorFindings, minorFindings) ==
    LET penalty == (majorFindings * 10) + (minorFindings * 3)
    IN  Max(0, 100 - penalty)

\* ConsistentAnswers without the floor at zero
ConsistentAnswersNoFloor(answeredCount, inconsistentAnswers) ==
    answeredCount - inconsistentAnswers

\* Math.max(0, answeredQuestions.length - inconsistentAnswers)
ConsistentAnswers(answeredCount, inconsistentAnswers) ==
    Max(0, answeredCount - inconsistentAnswers)

\* analyzeFraud from the cross-validation on: the aggregation and the scores
\* of the findings collected
Summarize(qs, findings) ==
    LET qmap == QuestionMap(qs)
        answeredQuestions == SelectSeq(qs, IsAnswered)
        NotDP(q) == ~StartsWith(q.id, "DP")
        totalQuestions == Len(SelectSeq(qs, NotDP))
        majorFindings == Len(SelectSeq(findings, IsMajor))
        minorFindings == Len(SelectSeq(findings, IsMinor))
        inconsistentAnswers == Len(findings)
    IN  [totalQuestions |-> totalQuestions,
         answeredQuestions |-> Len(answeredQuestions),
         consistentAnswers |->
             ConsistentAnswers(Len(answeredQuestions), inconsistentAnswers),
         inconsistentAnswers |-> inconsistentAnswers,
         honestyScore |-> HonestyScore(majorFindings, minorFindings),
         findings |-> findings,
         majorFindings |-> majorFindings,
         minorFindings |-> minorFindings,
         aspectScores |-> AspectScores(qs, qmap, findings)]

analyzeFraud(qs, rs) ==
    Summarize(qs, MatchRules(qs, rs) \o performCrossValidation(qs))

(* The generated ids.  Each findings.push builds its id from the pass's    *)
(* prefix, Date.now() and Math.random(); the clock and the random source   *)
(* are inputs of the run, one value of IdStamps per finding.  The ids are  *)
(* left out of analyzeFraud above; analyzeFraudWithIds keeps them.         *)
IdStamps == {"t1_r1", "t2_r2"}

\* the object pushed: the finding with its id
WithId(f, id) ==
    [id |-> id, ruleId |-> f.ruleId, questionId |-> f.questionId,
     evidenceId |-> f.evidenceId, severity |-> f.severity]

\* Stamped that drops a finding whose id some earlier finding of the pass has
StampedDropRepeatedIds(findings, prefix, stamps, offset) ==
    LET all == [k \in DOMAIN findings |->
                   WithId(findings[k], prefix \o stamps[offset + k])]
        First(k) == \A j \in 1..(k - 1) : all[j].id # all[k].id
        kept == SelectSeq([k \in DOMAIN findings |-> k], First)
    IN  [n \in DOMAIN kept |-> all[kept[n]]]

\* the findings of one pass with their ids: the k-th takes stamps[offset + k]
Stamped(findings, prefix, stamps, offset) ==
    [k \in DOMAIN findings |-> WithId(findings[k], prefix \o stamps[offset + k])]

\* the number of findings.push of a run
PushCount(qs, rs) == Len(MatchRules(qs, rs)) + Len(performCrossValidation(qs))

\* analyzeFraud with the ids that the stamps of the run give
analyzeFraudWithIds(qs, rs, stamps) ==
    LET byRule == MatchRules(qs, rs)
        static == StaticFindings(qs)
        pattern == PatternFindings(qs)
    IN  Summarize(qs,
            Stamped(byRule, "FIND_", stamps, 0)
            \o Stamped(static, "CROSS_", stamps, Len(byRule))
            \o Stamped(pattern, "PATTERN_", stamps, Len(byRule) + Len(static)))

-----------------------------------------------------------------------------
(* Dashboard: the weighted compliance index ("Skor Indeks Compliance") *)

majorWeight == 3
minorWeight == 1

\* WeightedScore with Math.floor for Math.round
WeightedScoreFloor(weightedDeduction, maxPossibleDeduction) ==
    Max(0, (200 * maxPossibleDeduction - 200 * weightedDeduction)
              \div (2 * maxPossibleDeduction))

\* Math.max(0, Math.round(100 - (weightedDeduction / maxPossibleDeduction) * 100))
\* Math.round rounds a half towards +Infinity, also below zero
WeightedScore(weightedDeduction, maxPossibleDeduction) ==
    Max(0, (200 * maxPossibleDeduction - 200 * weightedDeduction
              + maxPossibleDeduction) \div (2 * maxPossibleDeduction))

ComplianceIndex(res) ==
    LET totalAnswered == IF res.answeredQuestions = 0
                         THEN 1 ELSE res.answeredQuestions
        weightedDeduction == (res.majorFindings * majorWeight)
                             + (res.minorFindings * minorWeight)
        maxPossibleDeduction == totalAnswered * majorWeight
    IN  WeightedScore(weightedDeduction, maxPossibleDeduction)

-----------------------------------------------------------------------------
(* Secondary validator: the edge function ai-fraud-validation and the      *)
(* client hook useAIValidation.  Of the AI's answer only the fields the    *)
(* Dashboard computes with are kept: whether it carries a                  *)
(* consistency_score, the score, and the severities of its findings.       *)

\* what JSON.parse of the model's answer can give
AIFindingLists == {<<>>, <<"major">>, <<"major", "minor">>}

\* a payload without a score has hasScore FALSE; its consistency_score is
\* not read
AIPayloads ==
    { [hasScore |-> TRUE, consistency_score |-> c, findings |-> f] :
        c \in {0, 70, 100}, f \in AIFindingLists }
    \cup { [hasScore |-> FALSE, consistency_score |-> 0, findings |-> f] :
             f \in AIFindingLists }

NoPayload == [hasScore |-> FALSE, consistency_score |-> 0, findings |-> <<>>]

\* the answers of the AI gateway: its HTTP status and, when ok, the content
UpstreamOutcomes ==
    { [status |-> st, empty |-> TRUE, parsed |-> NoPayload] :
        st \in {200, 429, 402, 500} }
    \cup { [status |-> 200, empty |-> FALSE, parsed |-> p] : p \in AIPayloads }

\* a JSON body of the edge function; an absent error or errorCode is
\* "undefined", absent findings are <<>>
Body(status, err, errorCode, payload) ==
    [status |-> status, error |-> err, errorCode |-> errorCode,
     hasScore |-> payload.hasScore,
     consistency_score |-> payload.consistency_score,
     findings |-> payload.findings]

\* the body of the catch block: status 500, error, consistency_score 0
GenericFailure(message) ==
    Body(500, message, "undefined",
         [hasScore |-> TRUE, consistency_score |-> 0, findings |-> <<>>])

\* serve that answers every upstream failure with the generic body
serveAllGeneric(qs, keyConfigured, upstream) ==
    LET NotNull(q) == q.answer # "null"
    IN  IF ~keyConfigured
        THEN GenericFailure("LOVABLE_API_KEY is not configured")
        ELSE IF Len(SelectSeq(qs, NotNull)) = 0
        THEN Body(200, "undefined", "undefined",
                  [hasScore |-> TRUE, consistency_score |-> 100, findings |-> <<>>])
        ELSE IF upstream.status # 200
        THEN GenericFailure("AI gateway error")
        ELSE IF upstream.empty
        THEN GenericFailure("Empty response from AI")
        ELSE Body(200, "undefined", "undefined", upstream.parsed)

\* the request handler of the edge function
serve(qs, keyConfigured, upstream) ==
    LET NotNull(q) == q.answer # "null"
    IN  IF ~keyConfigured
        THEN GenericFailure("LOVABLE_API_KEY is not configured")
        ELSE IF Len(SelectSeq(qs, NotNull)) = 0
        THEN Body(200, "undefined", "undefined",
                  [hasScore |-> TRUE, consistency_score |-> 100, findings |-> <<>>])
        ELSE IF upstream.status = 429
        THEN Body(429, "Rate limit exceeded. Please try again in a moment.",
                  "RATE_LIMIT", NoPayload)
        ELSE IF upstream.status = 402
        THEN Body(402, "AI credits exhausted. Please add credits to continue.",
                  "PAYMENT_REQUIRED", NoPayload)
        ELSE IF upstream.status # 200
        THEN GenericFailure("AI gateway error")
        ELSE IF upstream.empty
        THEN GenericFailure("Empty response from AI")
        ELSE Body(200, "undefined", "undefined", upstream.parsed)

\* what supabase.functions.invoke hands to the hook for a response: the
\* parsed body as data, or, for a status that is not 2xx, an error in its
\* place (the client library is not part of the repository: both are kept)
Deliveries(response) ==
    IF response.status = 200 THEN {"data"} ELSE {"data", "funcError"}

\* the AI result the hook keeps: the data of the response; questions records
\* the request body it answers
AIResultOf(response, sent) ==
    [hasScore |-> response.hasScore,
     consistency_score |-> response.consistency_score,
     findings |-> response.findings,
     questions |-> sent]

\* aiResult after the body of the try block
SettledResult(response, delivery, sent, before) ==
    IF delivery = "funcError" \/ response.error # "undefined"
    THEN before
    ELSE AIResultOf(response, sent)

\* error after the try block and the catch
SettledError(response, delivery, before) ==
    IF delivery = "funcError"
    THEN "Edge Function returned a non-2xx status code"
    ELSE IF response.error # "undefined"
              /\ response.errorCode \notin {"RATE_LIMIT", "PAYMENT_REQUIRED"}
         THEN response.error
         ELSE before

\* const consistencyScore = aiResult.consistency_score || calculatedScore
AIConsistencyScore(ai, res) ==
    LET totalFindings == Len(ai.findings)
        IsMajorSeverity(severity) == severity = "major"
        majorFindings == Len(SelectSeq(ai.findings, IsMajorSeverity))
        minorFindings == totalFindings - majorFindings
        totalAnswered == IF res.answeredQuestions = 0
                         THEN 1 ELSE res.answeredQuestions
        weightedDeduction == (majorFindings * majorWeight)
                             + (minorFindings * minorWeight)
        maxPossibleDeduction == totalAnswered * majorWeight
        calculatedScore == WeightedScore(weightedDeduction, maxPossibleDeduction)
    IN  IF ai.hasScore /\ ai.consistency_score # 0
        THEN ai.consistency_score
        ELSE calculatedScore

\* the score of the AI result card: the card is rendered only for an aiResult
ShownScore(ai, res) ==
    IF ai = <<>> THEN "none" ELSE AIConsistencyScore(ai, res)

-----------------------------------------------------------------------------
(* Questionnaire.handleSubmit: the conversion of the form's responses into *)
(* the question list passed to onSubmit.  A database question has an id,   *)
(* an aspect, a number of breakdown items and sub-questions, each with an  *)
(* id and a number of breakdown items; a response array holds "null" where *)
(* the form has no answer.                                                 *)

\* `${idx + 1}` of a breakdown item
IndexText == <<"1", "2", "3">>

\* the breakdown items of the question or sub-question id that are answered
BreakdownItems(id, aspect, count, answers) ==
    LET Answered(idx) == answers[idx] # "null"
        kept == SelectSeq([idx \in 1..count |-> idx], Answered)
    IN  [k \in DOMAIN kept |->
            [id |-> id \o ".BD." \o IndexText[kept[k]],
             category |-> aspect,
             parentId |-> id,
             isSubQuestion |-> TRUE,
             answer |-> answers[kept[k]],
             evidence |-> "undefined"]]

\* what the forEach over dbQ.sub_questions pushes from position n on
RECURSIVE SubQuestionItems(_, _, _)
SubQuestionItems(dbQ, response, n) ==
    IF n > Len(dbQ.sub_questions)
    THEN <<>>
    ELSE LET subQ == dbQ.sub_questions[n]
             subAnswer == response.subQuestionAnswers[subQ.id]
         IN  (IF subAnswer # "null"
              THEN << [id |-> subQ.id,
                       category |-> dbQ.aspect,
                       parentId |-> dbQ.id,
                       isSubQuestion |-> TRUE,
                       answer |-> subAnswer,
                       evidence |-> "undefined"] >>
                   \o BreakdownItems(subQ.id, dbQ.aspect, subQ.breakdown,
                                     response.subBreakdownAnswers[subQ.id])
              ELSE <<>>)
             \o SubQuestionItems(dbQ, response, n + 1)

\* SubmittedItems that emits the items below a main question without looking
\* at the main answer
SubmittedItemsUnguarded(dbQ, response) ==
    (IF response.mainAnswer # "null"
     THEN << [id |-> dbQ.id,
              category |-> dbQ.aspect,
              parentId |-> "undefined",
              isSubQuestion |-> FALSE,
              answer |-> response.mainAnswer,
              evidence |-> response.notes] >>
     ELSE <<>>)
    \o BreakdownItems(dbQ.id, dbQ.aspect, dbQ.breakdown, response.breakdownAnswers)
    \o SubQuestionItems(dbQ, response, 1)

\* one iteration of questions.forEach(dbQ => ...): what it pushes
SubmittedItems(dbQ, response) ==
    IF response.mainAnswer # "null"
    THEN << [id |-> dbQ.id,
             category |-> dbQ.aspect,
             parentId |-> "undefined",
             isSubQuestion |-> FALSE,
             answer |-> response.mainAnswer,
             evidence |-> response.notes] >>
         \o BreakdownItems(dbQ.id, dbQ.aspect, dbQ.breakdown,
                           response.breakdownAnswers)
         \o SubQuestionItems(dbQ, response, 1)
    ELSE <<>>

\* the list handleSubmit builds from the database questions n.. 
RECURSIVE Submitted(_, _, _)
Submitted(db, resp, n) ==
    IF n > Len(db)
    THEN <<>>
    ELSE SubmittedItems(db[n], resp[db[n].id]) \o Submitted(db, resp, n + 1)

-----------------------------------------------------------------------------
(* Inputs: the question lists and rule tables handed to the Dashboard *)

Top(id, category) ==
    [id |-> id, category |-> category, parentId |-> "undefined",
     isSubQuestion |-> FALSE]

Sub(id, category, parentId) ==
    [id |-> id, category |-> category, parentId |-> parentId,
     isSubQuestion |-> TRUE]

\* a question of the taxonomy with its answer and evidence filled in
Filled(t, answer, evidence) ==
    [id |-> t.id, category |-> t.category, parentId |-> t.parentId,
     isSubQuestion |-> t.isSubQuestion, answer |-> answer,
     evidence |-> evidence]

\* the lists of at most n questions taken, in taxonomy order, from
\* taxonomy[i..], every answer in answers and every evidence in evidences
RECURSIVE ListsFrom(_, _, _, _, _)
ListsFrom(taxonomy, i, n, answers, evidences) ==
    IF i > Len(taxonomy) \/ n = 0
    THEN {<<>>}
    ELSE ListsFrom(taxonomy, i + 1, n, answers, evidences)
         \cup { <<Filled(taxonomy[i], a, e)>> \o rest :
                  a \in answers, e \in evidences,
                  rest \in ListsFrom(taxonomy, i + 1, n - 1, answers, evidences) }

\* the same lists, in taxonomy order and in the opposite order
BothOrders(lists) == lists \cup {Reverse(l) : l \in lists}

\* the rule tables of at most n rules of pool; a rule's id is its position
RuleIds == <<"R1", "R2", "R3", "R4", "R5", "R6", "R7", "R8", "R9", "R10",
             "R11", "R12", "R13">>

RECURSIVE TablesFrom(_, _)
TablesFrom(pool, n) ==
    IF n = 0
    THEN {<<>>}
    ELSE LET shorter == TablesFrom(pool, n - 1)
         IN  shorter \cup
             { Append(t, [r EXCEPT !.id = RuleIds[Len(t) + 1]]) :
                 t \in {u \in shorter : Len(u) = n - 1}, r \in pool }

Rule(conditionQuestionId, conditionAnswer, evidenceQuestionId, evidenceCondition, severity) ==
    [id |-> "R0",
     conditionQuestionId |-> conditionQuestionId,
     conditionAnswer |-> conditionAnswer,
     evidenceQuestionId |-> evidenceQuestionId,
     evidenceCondition |-> evidenceCondition,
     severity |-> severity]

(* Rule matcher instance: questions A.1 (condition) and A.2 (evidence) *)
RuleTaxonomy == <<Top("A.1", "A"), Top("A.2", "A")>>

RuleQuestionLists ==
    { l \in ListsFrom(RuleTaxonomy, 1, MaxQuestions, AnswerValues, EvidenceValues) :
        \A i \in DOMAIN l : l[i].id = "A.1" => l[i].evidence = "undefined" }

\* A.9 is in no question list: a rule that names it never resolves
RulePool ==
    { Rule("A.1", ca, "A.2", ec, IF ca = "Ya" THEN "major" ELSE "minor") :
        ca \in {"Ya", "Tidak"}, ec \in {"empty", "Tidak", "harus Ya"} }
    \cup { Rule("A.9", "Ya", "A.2", "empty", "major"),
           Rule("A.1", "Ya", "A.9", "empty", "minor") }

(* Cross-validation instance: the static pairs A.5/A.8 (major) and         *)
(* B.46/B.46.c (minor), and A.5 with up to three sub-questions             *)
CrossTaxonomy ==
    << Top("A.5", "A"), Sub("A.5.a", "A", "A.5"), Sub("A.5.b", "A", "A.5"),
       Sub("A.5.c", "A", "A.5"), Top("A.8", "A"),
       Top("B.46", "B"), Sub("B.46.c", "B", "B.46") >>

CrossQuestionLists ==
    BothOrders(ListsFrom(CrossTaxonomy, 1, MaxQuestions, AnswerValues, {"undefined"}))

(* Mixed instance: rules on A.5/A.8 together with the static pair A.5/A.8  *)
(* and the sub-questions of A.5, so that all three passes emit findings    *)
MixedTaxonomy ==
    << Top("A.5", "A"), Sub("A.5.a", "A", "A.5"), Sub("A.5.b", "A", "A.5"),
       Top("A.8", "A") >>

MixedQuestionLists ==
    BothOrders(ListsFrom(MixedTaxonomy, 1, MaxQuestions, AnswerValues, {"undefined"}))

MixedPool ==
    { Rule("A.5", "Ya", "A.8", "empty", "minor"),
      Rule("A.5", "Ya", "A.8", "Tidak", "major") }

(* Aspect instance: top-level questions of several categories, among them  *)
(* DPA.1, to which the spreadsheet import gives category A, a sub-question,*)
(* and at most one rule, which fires on DPA.1                              *)
AspectTaxonomy ==
    << Top("A.1", "A"), Sub("A.1.a", "A", "A.1"), Top("A.2", "A"),
       Top("A.3", "A"), Top("DPA.1", "A"), Top("B.1", "B"), Top("D.1", "D") >>

AspectQuestionLists ==
    ListsFrom(AspectTaxonomy, 1, MaxQuestions, AnswerValues, {"undefined"})

AspectPool == { Rule("DPA.1", "Ya", "B.1", "Tidak", "major") }

(* Score instance: the first k of eight answered questions, and a table of *)
(* rules that all fire on A.1 = 'Ya' with A.2 = 'Tidak'                    *)
ScoreQuestions ==
    << Filled(Top("A.1", "A"), "Ya", "doc"),
       Filled(Top("A.2", "A"), "Tidak", "undefined"),
       Filled(Top("A.3", "A"), "Ya", "doc"),
       Filled(Top("A.4", "A"), "Tidak", "undefined"),
       Filled(Top("B.1", "B"), "Ya", "doc"),
       Filled(Top("B.3", "B"), "Ya", "doc"),
       Filled(Top("C.1", "C"), "Ya", "doc"),
       Filled(Top("D.1", "D"), "Ya", "doc"),
       Filled(Top("D.2", "D"), "Ya", "doc") >>

ScoreQuestionLists ==
    { SubSeq(ScoreQuestions, 1, k) : k \in 0..MaxAnswered }

ScorePool ==
    { Rule("A.1", "Ya", "A.2", "empty", sev) : sev \in {"major", "minor"} }

-----------------------------------------------------------------------------
(* The Dashboard as a state machine: it is constructed with questions and  *)
(* rules, computes result = analyzeFraud(questions, rules) and renders the *)
(* compliance index from the result.                                       *)

(* Order instance: A.5 with three sub-questions and A.8, in taxonomy order, *)
(* no rule; the permutations of a list are taken where they are compared   *)
OrderTaxonomy ==
    << Top("A.5", "A"), Sub("A.5.a", "A", "A.5"), Sub("A.5.b", "A", "A.5"),
       Sub("A.5.c", "A", "A.5"), Top("A.8", "A") >>

OrderQuestionLists ==
    ListsFrom(OrderTaxonomy, 1, MaxQuestions, AnswerValues, {"undefined"})

(* Form instance: a question with a breakdown item and a sub-question that *)
(* has a breakdown item of its own, and a question with a breakdown item   *)
questionDatabase ==
    << [id |-> "A.1", aspect |-> "A", breakdown |-> 1,
        sub_questions |-> << [id |-> "A.1.a", breakdown |-> 1] >>],
       [id |-> "B.1", aspect |-> "B", breakdown |-> 1,
        sub_questions |-> <<>>] >>

FormAnswers == {"Ya", "Tidak", "null"}

\* the responses the form can hold for dbQ: every answer independently
ResponsesOf(dbQ) ==
    LET subIds == {dbQ.sub_questions[n].id : n \in DOMAIN dbQ.sub_questions}
    IN  [mainAnswer : FormAnswers,
         breakdownAnswers : [1..dbQ.breakdown -> FormAnswers],
         subQuestionAnswers : [subIds -> FormAnswers],
         subBreakdownAnswers : [subIds -> [1..1 -> FormAnswers]],
         notes : {""}]

FormResponses ==
    { [id \in {"A.1", "B.1"} |-> IF id = "A.1" THEN a ELSE b] :
        a \in ResponsesOf(questionDatabase[1]),
        b \in ResponsesOf(questionDatabase[2]) }

(* Validation instance: the Dashboard with a few question lists, among     *)
(* them one without an answered question, and no rule                      *)
AIQuestionLists ==
    { << Filled(Top("A.5", "A"), "Ya", "undefined"),
         Filled(Top("A.8", "A"), "Tidak", "undefined") >>,
      << Filled(Top("A.5", "A"), "Ya", "undefined") >>,
      << Filled(Top("A.8", "A"), "null", "undefined") >> }

NoResult == <<>>
NoScore == "none"
NoResponses == "none"
NoRequest == [stage |-> "idle"]
NoAIResult == <<>>

\* useState(false), useState(null), useState(null); nothing requested, no AI
\* result card shown
HookInit ==
    /\ aiResult = NoAIResult
    /\ isValidating = FALSE
    /\ error = "null"
    /\ request = NoRequest
    /\ consistencyScore = NoScore

TypeOK ==
    /\ pc \in {"form", "input", "analyzed", "reanalyzed", "rendered"}
    /\ pc = "input" => result = NoResult
    /\ pc # "rendered" => complianceScore = NoScore

InitWith(questionLists, ruleTables) ==
    /\ questions \in questionLists
    /\ rules \in ruleTables
    /\ result = NoResult
    /\ complianceScore = NoScore
    /\ pc = "input"
    /\ responses = NoResponses
    /\ HookInit

Init == InitWith(RuleQuestionLists, TablesFrom(RulePool, MaxRules))

InitCross == InitWith(CrossQuestionLists, {<<>>})

InitMixed == InitWith(MixedQuestionLists, TablesFrom(MixedPool, MaxRules))

InitAspect == InitWith(AspectQuestionLists, TablesFrom(AspectPool, 1))

InitOrder == InitWith(OrderQuestionLists, {<<>>})

InitScore == InitWith(ScoreQuestionLists, TablesFrom(ScorePool, MaxScoreRules))

\* Analyze whose analyzeFraud reverses the question list in place
AnalyzeReversingInPlace ==
    /\ pc = "input"
    /\ result' = analyzeFraud(questions, rules)
    /\ questions' = Reverse(questions)
    /\ pc' = "analyzed"
    /\ UNCHANGED <<rules, complianceScore>>
    /\ UNCHANGED <<responses, aiVars>>

\* const result = useMemo(() => analyzeFraud(questions, rules), ...)
Analyze ==
    /\ pc = "input"
    /\ result' = analyzeFraud(questions, rules)
    /\ pc' = "analyzed"
    /\ UNCHANGED <<questions, rules, complianceScore>>
    /\ UNCHANGED <<responses, aiVars>>

\* the compliance index card of the render
Render ==
    /\ pc = "analyzed"
    /\ complianceScore' = ComplianceIndex(result)
    /\ pc' = "rendered"
    /\ UNCHANGED <<questions, rules, result>>
    /\ UNCHANGED <<responses, aiVars>>

Next == Analyze \/ Render

\* a run of analyzeFraud with its clock and random values
AnalyzeWithIds ==
    /\ pc = "input"
    /\ \E stamps \in [1..PushCount(questions, rules) -> IdStamps] :
          result' = analyzeFraudWithIds(questions, rules, stamps)
    /\ pc' = "analyzed"
    /\ UNCHANGED <<questions, rules, complianceScore>>
    /\ UNCHANGED <<responses, aiVars>>

\* useMemo evaluates analyzeFraud again on the same questions and rules
Reanalyze ==
    /\ pc = "analyzed"
    /\ \E stamps \in [1..PushCount(questions, rules) -> IdStamps] :
          result' = analyzeFraudWithIds(questions, rules, stamps)
    /\ pc' = "reanalyzed"
    /\ UNCHANGED <<questions, rules, complianceScore>>
    /\ UNCHANGED <<responses, aiVars>>

NextRerun == AnalyzeWithIds \/ Reanalyze

\* the editor tab with its form filled in, nothing submitted yet
InitForm ==
    /\ questions = <<>>
    /\ rules = <<>>
    /\ result = NoResult
    /\ complianceScore = NoScore
    /\ pc = "form"
    /\ responses \in FormResponses
    /\ HookInit

\* Questionnaire.handleSubmit with onSubmit: without a main answer it only
\* warns; the submitted list becomes the questions of the Dashboard
handleSubmit ==
    /\ pc = "form"
    /\ \E n \in DOMAIN questionDatabase :
          responses[questionDatabase[n].id].mainAnswer # "null"
    /\ questions' = Submitted(questionDatabase, responses, 1)
    /\ pc' = "input"
    /\ UNCHANGED <<rules, result, complianceScore, responses, aiVars>>

NextForm == handleSubmit \/ Analyze \/ Render

\* the Dashboard mounted on a question list, its result computed
InitAI ==
    /\ questions \in AIQuestionLists
    /\ rules = <<>>
    /\ result = analyzeFraud(questions, rules)
    /\ complianceScore = NoScore
    /\ pc = "analyzed"
    /\ responses = NoResponses
    /\ HookInit

\* a click on the AI Validation button, disabled while isValidating or
\* without questions: validateWithAI up to its await
validateWithAI ==
    /\ ~isValidating
    /\ Len(questions) # 0
    /\ isValidating' = TRUE
    /\ error' = "null"
    /\ request' = [stage |-> "pending", questions |-> questions]
    /\ UNCHANGED <<aiResult, consistencyScore>>
    /\ UNCHANGED <<questions, rules, result, complianceScore, pc, responses>>

\* the edge function answers the request
EdgeFunctionResponds ==
    /\ request.stage = "pending"
    /\ \E keyConfigured \in BOOLEAN, upstream \in UpstreamOutcomes :
          request' = [stage |-> "responded",
                      questions |-> request.questions,
                      keyConfigured |-> keyConfigured,
                      upstream |-> upstream,
                      response |-> serve(request.questions, keyConfigured, upstream)]
    /\ UNCHANGED <<aiResult, isValidating, error, consistencyScore>>
    /\ UNCHANGED <<questions, rules, result, complianceScore, pc, responses>>

\* validateWithAI from its await on: try, catch and finally, and the render
\* that follows
InvokeSettles ==
    /\ request.stage = "responded"
    /\ \E delivery \in Deliveries(request.response) :
          /\ aiResult' = SettledResult(request.response, delivery,
                                       request.questions, aiResult)
          /\ error' = SettledError(request.response, delivery, error)
          /\ request' = [stage |-> "settled",
                         questions |-> request.questions,
                         keyConfigured |-> request.keyConfigured,
                         upstream |-> request.upstream,
                         response |-> request.response,
                         delivery |-> delivery]
    /\ isValidating' = FALSE
    /\ consistencyScore' = ShownScore(aiResult', result)
    /\ UNCHANGED <<questions, rules, result, complianceScore, pc, responses>>

\* Reset Data Assessment in the footer, the Dashboard mounted: the questions
\* become [], useMemo computes the result again and the effect on questions
\* calls resetAIResult
handleResetData ==
    /\ questions' = <<>>
    /\ result' = analyzeFraud(questions', rules)
    /\ aiResult' = NoAIResult
    /\ error' = "null"
    /\ consistencyScore' = NoScore
    /\ UNCHANGED <<isValidating, request>>
    /\ UNCHANGED <<rules, complianceScore, pc, responses>>

\* a new assessment is submitted from the editor tab: the Dashboard is
\* mounted anew on the submitted list, with a new hook state; a request of
\* the unmounted Dashboard no longer reaches any state
handleQuestionnaireSubmit ==
    /\ questions' \in AIQuestionLists
    /\ result' = analyzeFraud(questions', rules)
    /\ aiResult' = NoAIResult
    /\ isValidating' = FALSE
    /\ error' = "null"
    /\ request' = NoRequest
    /\ consistencyScore' = NoScore
    /\ UNCHANGED <<rules, complianceScore, pc, responses>>

NextAI ==
    \/ validateWithAI
    \/ EdgeFunctionResponds
    \/ InvokeSettles
    \/ handleResetData
    \/ handleQuestionnaireSubmit

Spec == Init /\ [][Next]_vars

SpecCross == InitCross /\ [][Next]_vars

SpecMixed == InitMixed /\ [][Next]_vars

SpecAspect == InitAspect /\ [][Next]_vars

SpecRerun == InitMixed /\ [][NextRerun]_vars

SpecAI == InitAI /\ [][NextAI]_vars

SpecOrder == InitOrder /\ [][Next]_vars

SpecForm == InitForm /\ [][NextForm]_vars

SpecScore == InitScore /\ [][Next]_vars

-----------------------------------------------------------------------------
(* Properties *)

Analyzed == pc # "input"

QuestionIds == {questions[i].id : i \in DOMAIN questions}

\* the question of an id (ids are unique in the question lists)
TheQuestion(id) == CHOOSE q \in {questions[i] : i \in DOMAIN questions} : q.id = id

\* the number of findings of the result that carry ruleId
FindingCount(ruleId) ==
    Cardinality({k \in DOMAIN result.findings : result.findings[k].ruleId = ruleId})

BothResolve(r) ==
    r.conditionQuestionId \in QuestionIds /\ r.evidenceQuestionId \in QuestionIds

Unanswered(q) == q.answer \in {"null", "undefined"}

NoEvidence(q) == q.evidence \in {"undefined", "null", ""}

\* C1: a rule with evidenceCondition 'empty' whose two questions resolve
\* emits exactly one finding with its id if the condition answer equals
\* conditionAnswer and the evidence question is answered 'Tidak', is
\* unanswered or has no evidence text, and emits no finding otherwise.
C1_EmptyRuleFiresIff ==
    Analyzed =>
        \A i \in DOMAIN rules :
            (rules[i].evidenceCondition = "empty" /\ BothResolve(rules[i])) =>
                LET c == TheQuestion(rules[i].conditionQuestionId)
                    e == TheQuestion(rules[i].evidenceQuestionId)
                IN  FindingCount(rules[i].id) =
                        IF /\ c.answer = rules[i].conditionAnswer
                           /\ (e.answer = "Tidak" \/ Unanswered(e) \/ NoEvidence(e))
                        THEN 1 ELSE 0

\* an 'empty' rule that fired only because the evidence text of a 'Ya'
\* evidence question is missing, next to one silenced by 'Ya' with evidence
C1_Witness ==
    /\ Analyzed
    /\ \E i \in DOMAIN rules :
          /\ rules[i].evidenceCondition = "empty"
          /\ BothResolve(rules[i])
          /\ TheQuestion(rules[i].conditionQuestionId).answer = rules[i].conditionAnswer
          /\ TheQuestion(rules[i].evidenceQuestionId).answer = "Ya"
          /\ TheQuestion(rules[i].evidenceQuestionId).evidence = ""
          /\ FindingCount(rules[i].id) = 1

\* C2: a rule with evidenceCondition 'Tidak' whose two questions resolve and
\* whose condition answer matches fires exactly when the evidence question
\* is answered 'Tidak'.
C2_TidakRuleFiresIff ==
    Analyzed =>
        \A i \in DOMAIN rules :
            ( /\ rules[i].evidenceCondition = "Tidak"
              /\ BothResolve(rules[i])
              /\ TheQuestion(rules[i].conditionQuestionId).answer
                     = rules[i].conditionAnswer ) =>
                FindingCount(rules[i].id) =
                    IF TheQuestion(rules[i].evidenceQuestionId).answer = "Tidak"
                    THEN 1 ELSE 0

\* a 'Tidak' rule whose condition matched, left silent by an unanswered
\* evidence question without evidence text
C2_Witness ==
    /\ Analyzed
    /\ \E i \in DOMAIN rules :
          /\ rules[i].evidenceCondition = "Tidak"
          /\ BothResolve(rules[i])
          /\ TheQuestion(rules[i].conditionQuestionId).answer = rules[i].conditionAnswer
          /\ Unanswered(TheQuestion(rules[i].evidenceQuestionId))
          /\ NoEvidence(TheQuestion(rules[i].evidenceQuestionId))
          /\ FindingCount(rules[i].id) = 0

RemoveAt(s, i) == SubSeq(s, 1, i - 1) \o SubSeq(s, i + 1, Len(s))

\* C3: a rule one of whose question ids is not in the question list emits
\* no finding, and the findings are those of the table without that rule.
C3_UnresolvedRuleSkipped ==
    Analyzed =>
        \A i \in DOMAIN rules :
            ~BothResolve(rules[i]) =>
                /\ FindingCount(rules[i].id) = 0
                /\ result.findings = analyzeFraud(questions, RemoveAt(rules, i)).findings

\* an unresolved rule in a table in which another rule fired
C3_Witness ==
    /\ Analyzed
    /\ \E i, j \in DOMAIN rules :
          /\ ~BothResolve(rules[i])
          /\ FindingCount(rules[j].id) = 1

PatternId(id) == "PATTERN_MAIN_YES_SUBS_NO_" \o id

\* the positions of the direct sub-questions of the question id
DirectSubs(id) ==
    {j \in DOMAIN questions :
        questions[j].isSubQuestion /\ questions[j].parentId = id}

\* C4: the pattern detector emits exactly one finding, of severity major and
\* ruleId PATTERN_MAIN_YES_SUBS_NO_<id>, for a top-level question that is
\* answered 'Ya' and has at least two direct sub-questions all answered
\* 'Tidak', and no finding for any other top-level question.
C4_PatternFiresIff ==
    Analyzed =>
        \A i \in DOMAIN questions :
            ~questions[i].isSubQuestion =>
                LET q == questions[i]
                    subs == DirectSubs(q.id)
                IN  /\ FindingCount(PatternId(q.id)) =
                           IF /\ q.answer = "Ya"
                              /\ Cardinality(subs) >= 2
                              /\ \A j \in subs : questions[j].answer = "Tidak"
                           THEN 1 ELSE 0
                    /\ \A k \in DOMAIN result.findings :
                           result.findings[k].ruleId = PatternId(q.id) =>
                               /\ result.findings[k].severity = "major"
                               /\ result.findings[k].questionId = q.id

\* A.5 = 'Ya' with three sub-questions all 'Tidak' and its pattern finding
C4_Witness ==
    /\ Analyzed
    /\ \E i \in DOMAIN questions :
          /\ ~questions[i].isSubQuestion
          /\ questions[i].answer = "Ya"
          /\ Cardinality(DirectSubs(questions[i].id)) = 3
          /\ FindingCount(PatternId(questions[i].id)) = 1

CrossId(pair) == "CROSS_" \o pair.condition.id \o "_" \o pair.evidence.id

\* C5: a pair of the static table fires, once, exactly when its condition
\* question is in the list answered 'Ya' and its evidence question is in the
\* list answered 'Tidak'.
C5_StaticPairFiresIff ==
    Analyzed =>
        \A n \in DOMAIN crossValidationRules :
            LET pair == crossValidationRules[n]
            IN  FindingCount(CrossId(pair)) =
                    IF /\ \E i \in DOMAIN questions :
                              /\ questions[i].id = pair.condition.id
                              /\ questions[i].answer = "Ya"
                       /\ \E j \in DOMAIN questions :
                              /\ questions[j].id = pair.evidence.id
                              /\ questions[j].answer = "Tidak"
                    THEN 1 ELSE 0

\* the pair B.46/B.46.c fired while A.5 = 'Ya' with an unanswered A.8 that
\* has no evidence text stayed silent
C5_Witness ==
    /\ Analyzed
    /\ FindingCount("CROSS_B.46_B.46.c") = 1
    /\ FindingCount("CROSS_A.5_A.8") = 0
    /\ \E i, j \in DOMAIN questions :
          /\ questions[i].id = "A.5" /\ questions[i].answer = "Ya"
          /\ questions[j].id = "A.8" /\ Unanswered(questions[j])
          /\ NoEvidence(questions[j])

\* C6: the findings of the result are the rule matcher's findings, then the
\* static pairs' findings, then the pattern detector's findings, all of them.
C6_FindingsConcatenated ==
    Analyzed =>
        LET ruleFindings == MatchRules(questions, rules)
            staticFindings == StaticFindings(questions)
            patternFindings == PatternFindings(questions)
        IN  /\ result.findings = ruleFindings \o staticFindings \o patternFindings
            /\ Len(result.findings) =
                   Len(ruleFindings) + Len(staticFindings) + Len(patternFindings)

\* a result that holds a finding of each of the three passes
C6_Witness ==
    /\ Analyzed
    /\ Len(rules) > 0
    /\ FindingCount(rules[1].id) = 1
    /\ FindingCount("CROSS_A.5_A.8") = 1
    /\ FindingCount(PatternId("A.5")) = 1

IsRuleFinding(f) == \E i \in DOMAIN rules : rules[i].id = f.ruleId

\* the rule fires when it is the only rule of the table
FiresAlone(r) ==
    \E k \in DOMAIN analyzeFraud(questions, <<r>>).findings :
        analyzeFraud(questions, <<r>>).findings[k].ruleId = r.id

\* C7: the rule matcher's findings are, in table order, one finding for
\* every rule that fires on its own; none is dropped as a duplicate.
C7_RuleOrderNoDedup ==
    Analyzed =>
        LET ruleFindings == SelectSeq(result.findings, IsRuleFinding)
            firing == SelectSeq(rules, FiresAlone)
        IN  /\ Len(ruleFindings) = Len(firing)
            /\ \A k \in DOMAIN ruleFindings : ruleFindings[k].ruleId = firing[k].id

\* two rules that fired on the same question pair, in table order
C7_Witness ==
    /\ Analyzed
    /\ \E i, j \in DOMAIN rules :
          /\ i < j
          /\ rules[i].conditionQuestionId = rules[j].conditionQuestionId
          /\ rules[i].evidenceQuestionId = rules[j].evidenceQuestionId
          /\ \E k, l \in DOMAIN result.findings :
                /\ k < l
                /\ result.findings[k].ruleId = rules[i].id
                /\ result.findings[l].ruleId = rules[j].id

\* C8: honestyScore is 100 minus ten per major and three per minor finding,
\* not below zero, hence within 0..100.
C8_HonestyScoreFormula ==
    Analyzed =>
        LET penalty == result.majorFindings * 10 + result.minorFindings * 3
        IN  /\ result.honestyScore \in 0..100
            /\ penalty <= 100 => result.honestyScore = 100 - penalty
            /\ penalty > 100 => result.honestyScore = 0

\* a result whose penalty exceeds 100
C8_Witness ==
    /\ Analyzed
    /\ result.majorFindings * 10 + result.minorFindings * 3 > 100
    /\ result.minorFindings > 0
    /\ result.honestyScore = 0

\* one more rule of severity major that fires whenever the score rules do
ExtraMajorRule ==
    [id |-> "RX", conditionQuestionId |-> "A.1", conditionAnswer |-> "Ya",
     evidenceQuestionId |-> "A.2", evidenceCondition |-> "empty",
     severity |-> "major"]

\* C9: the honestyScore of the same findings with one more major finding
\* is not above the honestyScore of the result.
C9_ScoreMonotone ==
    Analyzed =>
        LET more == analyzeFraud(questions, Append(rules, ExtraMajorRule))
            IsOld(f) == f.ruleId # ExtraMajorRule.id
            IsNew(f) == f.ruleId = ExtraMajorRule.id /\ f.severity = "major"
        IN  ( /\ SelectSeq(more.findings, IsOld) = result.findings
              /\ Len(SelectSeq(more.findings, IsNew)) = 1 ) =>
                more.honestyScore <= result.honestyScore

\* a result already at the floor to which one more major finding is added
C9_Witness ==
    /\ Analyzed
    /\ result.honestyScore = 0
    /\ result.majorFindings * 10 + result.minorFindings * 3 >= 100
    /\ Len(analyzeFraud(questions, Append(rules, ExtraMajorRule)).findings)
           = Len(result.findings) + 1

\* C10: the compliance index is 100 - deduction / maximum * 100 rounded to
\* the nearest integer (a half upwards) and not below zero, where deduction
\* is 3 per major and 1 per minor finding and maximum is 3 per answered
\* question, at least 3; so the divisor is positive and the index in 0..100.
C10_ComplianceIndexFormula ==
    pc = "rendered" =>
        LET answered == IF result.answeredQuestions = 0
                        THEN 1 ELSE result.answeredQuestions
            deduction == result.majorFindings * 3 + result.minorFindings * 1
            maximum == answered * 3
            \* 2 * maximum * (100 - deduction / maximum * 100)
            scaled == 200 * maximum - 200 * deduction
        IN  /\ maximum > 0
            /\ complianceScore \in 0..100
            /\ complianceScore > 0 =>
                   /\ 2 * maximum * complianceScore - maximum <= scaled
                   /\ scaled < 2 * maximum * complianceScore + maximum
            /\ complianceScore = 0 => scaled < maximum

\* the index of a result without answered questions
C10_Witness ==
    /\ pc = "rendered"
    /\ result.answeredQuestions = 0
    /\ complianceScore = 100

\* the index of 8 answered questions and one major finding: 87.5 rounds to 88
C10_HalfRoundsUp ==
    /\ pc = "rendered"
    /\ result.answeredQuestions = 8
    /\ result.majorFindings = 1
    /\ result.minorFindings = 0
    /\ complianceScore = 88

\* an index cut off at zero
C10_Floor ==
    /\ pc = "rendered"
    /\ result.majorFindings * 3 + result.minorFindings > result.answeredQuestions * 3
    /\ complianceScore = 0

\* the number of answered questions of the list
AnsweredCount == Cardinality({i \in DOMAIN questions : ~Unanswered(questions[i])})

\* C11: inconsistentAnswers is the number of findings and consistentAnswers
\* is the number of answered questions minus it, or 0 when that is negative.
C11_ConsistencyCounts ==
    Analyzed =>
        /\ result.inconsistentAnswers = Len(result.findings)
        /\ result.consistentAnswers >= 0
        /\ AnsweredCount >= Len(result.findings) =>
               result.consistentAnswers = AnsweredCount - Len(result.findings)
        /\ AnsweredCount < Len(result.findings) => result.consistentAnswers = 0

\* more findings than answered questions
C11_Witness ==
    /\ Analyzed
    /\ Len(result.findings) > AnsweredCount
    /\ AnsweredCount > 0
    /\ result.consistentAnswers = 0

\* the number of findings of the result of a severity
SeverityCount(severity) ==
    Cardinality({k \in DOMAIN result.findings :
                    result.findings[k].severity = severity})

\* C12: every finding is major or minor, majorFindings and minorFindings
\* count the findings of their severity, and they add up to the number of
\* findings.
C12_SeverityPartition ==
    Analyzed =>
        /\ \A k \in DOMAIN result.findings :
               result.findings[k].severity \in {"major", "minor"}
        /\ result.majorFindings = SeverityCount("major")
        /\ result.minorFindings = SeverityCount("minor")
        /\ result.majorFindings + result.minorFindings = Len(result.findings)

\* a result with findings of both severities from the rules and the passes
C12_Witness ==
    /\ Analyzed
    /\ result.minorFindings > 0
    /\ result.majorFindings > 1
    /\ FindingCount(PatternId("A.5")) = 1

\* the positions of the top-level questions of a category
TopLevelOf(category) ==
    {i \in DOMAIN questions :
        questions[i].category = category /\ ~questions[i].isSubQuestion}

AspectCounts(res) ==
    [a \in DOMAIN res.aspectScores |->
        << res.aspectScores[a].totalQuestions,
           res.aspectScores[a].answeredQuestions,
           res.aspectScores[a].yesAnswers,
           res.aspectScores[a].noAnswers,
           res.aspectScores[a].complianceScore >>]

\* the question list with the answer of question j replaced
Reanswered(j, answer) == [questions EXCEPT ![j].answer = answer]

\* C14: removing a sub-question from the list (or adding it to the list
\* without it) or giving it another answer changes no category's
\* totalQuestions, answeredQuestions, yesAnswers, noAnswers or
\* complianceScore.
C14_SubQuestionsNotCounted ==
    Analyzed =>
        \A j \in DOMAIN questions :
            questions[j].isSubQuestion =>
                /\ AspectCounts(analyzeFraud(RemoveAt(questions, j), rules))
                       = AspectCounts(result)
                /\ \A v \in AnswerValues :
                       AspectCounts(analyzeFraud(Reanswered(j, v), rules))
                           = AspectCounts(result)

\* two answered sub-questions next to the two top-level questions counted
C14_Witness ==
    /\ Analyzed
    /\ Cardinality({j \in DOMAIN questions :
                       /\ questions[j].isSubQuestion
                       /\ questions[j].category = "A"
                       /\ ~Unanswered(questions[j])}) = 2
    /\ result.aspectScores[1].totalQuestions = 2
    /\ result.aspectScores[1].answeredQuestions = 1

\* C15: a category's findings list holds exactly the findings of the result
\* whose questionId begins with the category code.
C15_FindingsByPrefix ==
    Analyzed =>
        \A a \in DOMAIN Aspects :
            result.aspectScores[a].findings =
                LET HasPrefix(f) == StartsWith(f.questionId, Aspects[a])
                IN  SelectSeq(result.findings, HasPrefix)

\* C16: aspectScores has exactly four entries, for the categories A, B, C and
\* D in this order, whichever categories occur in the question list.
C16_FourAspectEntries ==
    Analyzed =>
        /\ Len(result.aspectScores) = 4
        /\ [a \in DOMAIN result.aspectScores |-> result.aspectScores[a].aspect]
               = <<"A", "B", "C", "D">>

\* analyzed, a list whose questions are all of category D
C16_Witness ==
    /\ Analyzed
    /\ questions # <<>>
    /\ \A i \in DOMAIN questions : questions[i].category = "D"
    /\ Len(result.aspectScores) = 4
    /\ result.aspectScores[4].totalQuestions = 1
    /\ result.aspectScores[1].totalQuestions = 0

\* C17: for the empty question list, whatever the rule table, every count of
\* the result is 0, the findings list is empty and honestyScore is 100.
C17_EmptyListAllZero ==
    (Analyzed /\ questions = <<>>) =>
        /\ result.totalQuestions = 0
        /\ result.answeredQuestions = 0
        /\ result.consistentAnswers = 0
        /\ result.inconsistentAnswers = 0
        /\ result.majorFindings = 0
        /\ result.minorFindings = 0
        /\ result.findings = <<>>
        /\ result.honestyScore = 100

\* analyzed, the empty list with a full rule table
C17_Witness ==
    /\ Analyzed
    /\ questions = <<>>
    /\ Len(rules) = MaxRules
    /\ result.findings = <<>>

\* the list of the top-level A.5 answered 'Ya' and the top-level A.8 answered
\* 'Tidak', both of category A, and no rule
OnlyA5YesA8No ==
    /\ rules = <<>>
    /\ Len(questions) = 2
    /\ questions[1].id = "A.5" /\ questions[1].answer = "Ya"
    /\ questions[2].id = "A.8" /\ questions[2].answer = "Tidak"
    /\ \A i \in DOMAIN questions :
          questions[i].category = "A" /\ ~questions[i].isSubQuestion

\* C18: for that list analyzeFraud returns exactly one finding, the one of the
\* static pair A.5/A.8, with majorFindings 1, minorFindings 0,
\* answeredQuestions 2 and honestyScore 90.
C18_SinglePairExample ==
    (Analyzed /\ OnlyA5YesA8No) =>
        /\ Len(result.findings) = 1
        /\ result.findings[1].ruleId = "CROSS_A.5_A.8"
        /\ result.findings[1].questionId = "A.5"
        /\ result.findings[1].evidenceId = "A.8"
        /\ result.majorFindings = 1
        /\ result.minorFindings = 0
        /\ result.answeredQuestions = 2
        /\ result.honestyScore = 90

C18_Witness ==
    /\ Analyzed
    /\ OnlyA5YesA8No
    /\ Len(result.findings) = 1
    /\ result.honestyScore = 90

\* C19: when every question of the list has category A, the entries of B, C
\* and D have totalQuestions 0 and complianceScore 0.
C19_OtherAspectsEmpty ==
    (Analyzed /\ \A i \in DOMAIN questions : questions[i].category = "A") =>
        \A a \in DOMAIN result.aspectScores :
            result.aspectScores[a].aspect \in {"B", "C", "D"} =>
                /\ result.aspectScores[a].totalQuestions = 0
                /\ result.aspectScores[a].complianceScore = 0

\* analyzed, a list of category A only whose own entry is not empty
C19_Witness ==
    /\ Analyzed
    /\ Len(questions) = MaxQuestions
    /\ \A i \in DOMAIN questions : questions[i].category = "A"
    /\ result.aspectScores[1].totalQuestions > 0
    /\ result.aspectScores[1].complianceScore > 0
    /\ result.aspectScores[2].totalQuestions = 0

\* a finding without its id
Bare(f) ==
    [ruleId |-> f.ruleId, questionId |-> f.questionId,
     evidenceId |-> f.evidenceId, severity |-> f.severity]

BareFindings(findings) == [k \in DOMAIN findings |-> Bare(findings[k])]

\* two results equal in every field but the ids of their findings
SameExceptIds(r1, r2) ==
    /\ r1.totalQuestions = r2.totalQuestions
    /\ r1.answeredQuestions = r2.answeredQuestions
    /\ r1.consistentAnswers = r2.consistentAnswers
    /\ r1.inconsistentAnswers = r2.inconsistentAnswers
    /\ r1.honestyScore = r2.honestyScore
    /\ r1.majorFindings = r2.majorFindings
    /\ r1.minorFindings = r2.minorFindings
    /\ BareFindings(r1.findings) = BareFindings(r2.findings)
    /\ DOMAIN r1.aspectScores = DOMAIN r2.aspectScores
    /\ \A a \in DOMAIN r1.aspectScores :
          /\ r1.aspectScores[a].aspect = r2.aspectScores[a].aspect
          /\ AspectCounts(r1)[a] = AspectCounts(r2)[a]
          /\ BareFindings(r1.aspectScores[a].findings)
                 = BareFindings(r2.aspectScores[a].findings)

Orphans ==
    {j \in DOMAIN questions :
        questions[j].isSubQuestion /\ questions[j].parentId \notin QuestionIds}

ResultFields ==
    {"totalQuestions", "answeredQuestions", "consistentAnswers",
     "inconsistentAnswers", "honestyScore", "findings", "majorFindings",
     "minorFindings", "aspectScores"}

\* C22: analyzeFraud returns a result for every question list with answers
\* 'Ya', 'Tidak', null or undefined, absent evidence and unresolved parentId;
\* a question answered null or undefined counts as unanswered, and a
\* sub-question whose parentId matches no question takes part in no pattern
\* finding.
C22_NeverThrows ==
    /\ ~ThrowsTypeError(questions, rules)
    /\ Analyzed =>
          /\ DOMAIN result = ResultFields
          /\ result.answeredQuestions =
                 Cardinality({i \in DOMAIN questions :
                                 questions[i].answer \in {"Ya", "Tidak"}})
          /\ \A j \in Orphans :
                \A k \in DOMAIN result.findings :
                    StartsWith(result.findings[k].ruleId, "PATTERN_") =>
                        /\ result.findings[k].questionId # questions[j].parentId
                        /\ result.findings[k].evidenceId # questions[j].id

\* analyzed, a list of two orphans answered 'Tidak' and a question answered
\* null, with a rule that names a question the list does not have
C22_Witness ==
    /\ Analyzed
    /\ Cardinality({j \in Orphans : questions[j].answer = "Tidak"}) >= 2
    /\ \E i \in DOMAIN questions : questions[i].answer = "null"
    /\ \E n \in DOMAIN rules : ~BothResolve(rules[n])
    /\ result.answeredQuestions = 2
    /\ result.findings = <<>>

\* the request that has just been answered went as far as the AI gateway
UpstreamAsked(req) ==
    /\ req.keyConfigured
    /\ \E i \in DOMAIN req.questions : req.questions[i].answer # "null"

\* the response is one of the failures
Failed(response) == response.error # "undefined"

\* C23: the edge function answers an upstream 429 with errorCode RATE_LIMIT,
\* an upstream 402 with errorCode PAYMENT_REQUIRED and every other upstream
\* failure with a failure that carries no errorCode; in the hook none of the
\* three sets aiResult, and isValidating is false after each of them.
C23_ThreeFailureOutcomes ==
    [][/\ (request'.stage = "responded" /\ request.stage = "pending"
           /\ UpstreamAsked(request')) =>
             LET up == request'.upstream
                 response == request'.response
             IN  /\ up.status = 429 =>
                        Failed(response) /\ response.errorCode = "RATE_LIMIT"
                 /\ up.status = 402 =>
                        Failed(response) /\ response.errorCode = "PAYMENT_REQUIRED"
                 /\ (up.status \notin {200, 429, 402} \/ (up.status = 200 /\ up.empty)) =>
                        Failed(response) /\ response.errorCode = "undefined"
                 /\ (up.status = 200 /\ ~up.empty) => ~Failed(response)
       /\ (request'.stage = "settled" /\ request.stage = "responded"
           /\ Failed(request.response)) =>
             /\ aiResult' = aiResult
             /\ isValidating' = FALSE]_vars

\* a rate-limited validation has settled, an earlier AI result still shown
C23_Witness ==
    /\ request.stage = "settled"
    /\ request.upstream.status = 429
    /\ request.response.errorCode = "RATE_LIMIT"
    /\ request.delivery = "data"
    /\ ~isValidating
    /\ aiResult # NoAIResult

\* C26: the Dashboard holds no AI result computed from another question list
\* than the one it shows: after the questions change aiResult is null until a
\* validation started for the new list completes, also when a request for
\* the old list was in flight at the change and resolves afterwards.
C26_NoStaleAIResult ==
    aiResult # NoAIResult => aiResult.questions = questions

\* C27: the AI consistency score shown is aiResult.consistency_score whenever
\* the AI result supplies a score, 0 included, and the weighted-deduction
\* score of the AI findings only when it supplies none.
C27_AIScoreShown ==
    aiResult # NoAIResult =>
        consistencyScore =
            IF aiResult.hasScore
            THEN aiResult.consistency_score
            ELSE LET major == Cardinality({k \in DOMAIN aiResult.findings :
                                              aiResult.findings[k] = "major"})
                     minor == Len(aiResult.findings) - major
                     answered == IF result.answeredQuestions = 0
                                 THEN 1 ELSE result.answeredQuestions
                 IN  WeightedScore(3 * major + minor, 3 * answered)

\* the question list rearranged by the permutation p of its positions
Permuted(p) == [i \in DOMAIN questions |-> questions[p[i]]]

\* findings compared on ruleId, questionId and severity
Triples(findings) ==
    { <<findings[k].ruleId, findings[k].questionId, findings[k].severity>> :
        k \in DOMAIN findings }

\* C24: cross-validation does not depend on the order of the questions: every
\* permutation of a list of unique ids gives the same set of findings,
\* compared on ruleId, questionId and severity, as the list itself, from the
\* static pass and from the pattern detector.
C24_OrderIndependent ==
    (pc = "analyzed" /\ rules = <<>>) =>
        \A p \in Permutations(DOMAIN questions) :
            /\ Triples(StaticFindings(Permuted(p)))
                   = {t \in Triples(result.findings) : StartsWith(t[1], "CROSS_")}
            /\ Triples(PatternFindings(Permuted(p)))
                   = {t \in Triples(result.findings) : StartsWith(t[1], "PATTERN_")}

\* analyzed, a list with a finding of each pass, of which a permutation gives
\* the pattern finding another evidenceId
C24_Witness ==
    /\ pc = "analyzed"
    /\ \E j, k \in DOMAIN result.findings :
          /\ StartsWith(result.findings[j].ruleId, "CROSS_")
          /\ StartsWith(result.findings[k].ruleId, "PATTERN_")
          /\ \E p \in Permutations(DOMAIN questions) :
                \E n \in DOMAIN PatternFindings(Permuted(p)) :
                    PatternFindings(Permuted(p))[n].evidenceId
                        # result.findings[k].evidenceId

\* C25: every list handleSubmit passes to onSubmit satisfies the parent
\* invariant: the parentId of every sub-question in it is the id of another
\* question of the list.
C25_ParentsEmitted ==
    pc # "form" =>
        \A i \in DOMAIN questions :
            questions[i].isSubQuestion =>
                \E j \in DOMAIN questions :
                    j # i /\ questions[j].id = questions[i].parentId

\* submitted: a list with a breakdown item of a sub-question, while the form
\* holds answers below a main question that is not answered
C25_Witness ==
    /\ pc = "input"
    /\ \E i \in DOMAIN questions : questions[i].id = "A.1.a.BD.1"
    /\ responses["B.1"].mainAnswer = "null"
    /\ responses["B.1"].breakdownAnswers[1] = "Ya"
    /\ \A i \in DOMAIN questions : questions[i].category = "A"

\* C28: a rule whose evidenceCondition is neither 'empty' nor 'Tidak'
\* produces no finding, whatever its two questions answer.
C28_OtherConditionNeverFires ==
    Analyzed =>
        \A n \in DOMAIN rules :
            rules[n].evidenceCondition \notin {"empty", "Tidak"} =>
                FindingCount(rules[n].id) = 0

\* analyzed, a 'harus Ya' rule whose questions resolve, whose condition
\* answer matches and whose evidence question is answered 'Tidak'
C28_Witness ==
    /\ Analyzed
    /\ \E n \in DOMAIN rules :
          /\ rules[n].evidenceCondition = "harus Ya"
          /\ BothResolve(rules[n])
          /\ TheQuestion(rules[n].conditionQuestionId).answer
                 = rules[n].conditionAnswer
          /\ TheQuestion(rules[n].evidenceQuestionId).answer = "Tidak"
          /\ NoEvidence(TheQuestion(rules[n].evidenceQuestionId))
          /\ FindingCount(rules[n].id) = 0

\* C29: the answeredQuestions of the result is at most its totalQuestions.
C29_AnsweredAtMostTotal ==
    Analyzed => result.answeredQuestions <= result.totalQuestions

\* the number of per-category lists that hold the finding at position k
ListsHolding(k) ==
    Cardinality({a \in DOMAIN result.aspectScores :
                    \E n \in DOMAIN result.aspectScores[a].findings :
                        result.aspectScores[a].findings[n] = result.findings[k]})

RECURSIVE SumOfLengths(_, _)
SumOfLengths(scores, a) ==
    IF a > Len(scores)
    THEN 0
    ELSE Len(scores[a].findings) + SumOfLengths(scores, a + 1)

\* C30: when every question has a category among A, B, C and D, every finding
\* of the result is in the findings list of exactly one category, and the
\* lengths of the four lists add up to the number of findings.
C30_FindingsPartitioned ==
    (Analyzed /\ \A i \in DOMAIN questions :
                    questions[i].category \in {"A", "B", "C", "D"}) =>
        /\ \A k \in DOMAIN result.findings : ListsHolding(k) = 1
        /\ SumOfLengths(result.aspectScores, 1) = Len(result.findings)

\* analyzed, a finding whose condition and evidence questions are of two
\* categories
C30_Witness ==
    /\ Analyzed
    /\ \E k \in DOMAIN result.findings :
          /\ TheQuestion(result.findings[k].questionId).category = "A"
          /\ TheQuestion(result.findings[k].evidenceId).category = "B"
          /\ Len(result.aspectScores[1].findings) = 1
          /\ Len(result.aspectScores[2].findings) = 0

====
